---- MODULE Spec2Model ----
(***************************************************************************)
(* Toggl-Telegram-Connect: the report computations and the handlers of the *)
(* bot.                                                                    *)
(*                                                                         *)
(*   Spec       /fnr <user>: fetch, window filter, sort, block loop, FNR   *)
(*   SpecAgg    /today all and /leaderboard: the per-user totals loop and  *)
(*              the leaderboard ranking                                    *)
(*   SpecEntry  one raw entry through the window test and the duration     *)
(*              rule of each of the four code paths                        *)
(*   SpecAll    the three of them side by side: a run is one of them       *)
(*   SpecWindow /leaderboard: the arguments and the time window            *)
(*   SpecLoop   /fnr <user> from a small pool of lists, its loops fair     *)
(*   SpecWake   /wake <user> and /wake all: the hourly limit               *)
(*   SpecUsers  /add_user: save_token_to_db, two calls at once             *)
(*   SpecReply  handle_wake_reply: replies to wake messages                *)
(*   SpecHook   telegram_webhook_handler: one request after another        *)
(*   SpecLog    log_command_usage: the wrapper of the command handlers     *)
(*                                                                         *)
(* Timestamps are whole seconds (integers); a JSON field is a record       *)
(* [kind, v]: kind says what the field holds, v is its value when it holds *)
(* a timestamp or an integer.  An Optional[datetime] is <<>> (None) or     *)
(* <<t>>.                                                                  *)
(***************************************************************************)
EXTENDS Integers, Sequences, FiniteSets, TLC

VARIABLES
    now,                \* the clock that datetime.now() reads
    pc,                 \* position of the running handler
    start_boundary_utc, \* window start (inclusive)
    end_boundary_utc,   \* window end (exclusive)
    \* ---- fnr_command
    entries_data,       \* resp.json()
    filtered_entries,
    i, j, block_number,
    current_block_start_dt,
    current_block_end_dt,
    current_block_total_tracked_seconds,
    results_message_parts, \* one record per emitted block (the values formatted)
    reply,              \* which message the handler replied with
    gap_log,            \* history: next_entry_start_dt - prev_entry_stop_dt of each comparison
    secs_log,           \* history: entry_duration_seconds of each entry as it was added
    \* ---- today_command ('all') and leaderboard_command
    cmd,                \* "today_all" or "leaderboard"
    period,             \* 'daily' or 'weekly'
    toggl_token_map,    \* the configured user keys
    u_idx,              \* how many users of sorted(toggl_token_map.items()) are done
    totals,             \* list of (user_key, total_seconds, err)
    entries,            \* resp.json() of the user fetched last
    successful,         \* leaderboard: [(u, s)] sorted
    lines,              \* the lines of the reply
    fetch_log,          \* history: the user keys requests.get was called for, in order
    \* ---- one raw entry through one code path
    ent_raw, ent_path, ent_kept, ent_secs,
    \* ---- leaderboard_command: the window
    utc_offset,         \* of local_tz, in seconds
    target_date,        \* a local date, in days since 1970-01-01
    \* ---- wake
    wake_map,           \* bot_data['wake_map']: per target, loaded or not, and sender -> last
    wake_cooldown,      \* the wake_cooldown column of the Users table, per target
    wake_req,           \* the /wake being handled: sender, target, the rows left of 'all'
    wake_sent,          \* history: the wake messages delivered (sender, target, at)
    wake_reply,         \* what the handler replied last
    \* ---- add_user_command and save_token_to_db
    users_table,        \* the rows of the Users table, in insertion order
    add_call,           \* per running /add_user: where it is in save_token_to_db
    \* ---- handle_wake_reply
    wake_message_lookup,    \* bot_data['wake_message_lookup']: message_id -> wake data
    user_active_wake,       \* bot_data['user_active_wake']: target_id -> message_id
    reply_call,             \* the update being handled and where the handler is
    forward_log,            \* history: the message ids whose reply send_message delivered
    reply_log,              \* history: one record per handled reply
    \* ---- telegram_webhook_handler
    application_built,      \* _application is set (get_application built the bot)
    hook_call,              \* the request being handled and where the handler is
    hook_log,               \* history: one record per answered request
    \* ---- log_command_usage
    log_call,               \* the wrapped invocation and where the wrapper is
    usage_rows,             \* the rows log_command has inserted
    wrapper_log             \* history: one record per finished invocation

fnrVars == <<entries_data, filtered_entries, i, j, block_number,
             current_block_start_dt, current_block_end_dt,
             current_block_total_tracked_seconds, results_message_parts,
             reply, gap_log, secs_log>>

aggVars == <<cmd, period, toggl_token_map, u_idx, totals, entries, successful, lines,
             fetch_log>>

entVars == <<ent_raw, ent_path, ent_kept, ent_secs>>

winVars == <<utc_offset, target_date>>

wakeVars == <<wake_map, wake_cooldown, wake_req, wake_sent, wake_reply>>

usersVars == <<users_table, add_call>>

hookVars == <<application_built, hook_call, hook_log>>

logVars == <<log_call, usage_rows, wrapper_log>>

replyVars == <<wake_message_lookup, user_active_wake, reply_call, forward_log, reply_log>>

\* the variables of the handlers each specified on its own
restVars == <<usersVars, replyVars, hookVars, logVars>>

\* the variables of the handlers that are no report computation
botVars == <<winVars, wakeVars, restVars>>

\* the variables the handlers specified on their own leave alone
coreVars == <<now, pc, start_boundary_utc, end_boundary_utc, fnrVars, aggVars, entVars,
              winVars, wakeVars>>

vars == <<now, pc, start_boundary_utc, end_boundary_utc, fnrVars, aggVars, entVars,
          botVars>>

-----------------------------------------------------------------------------
(* Bounds and program constants *)

\* most entries in one response body
MaxEntries == 3

\* timedelta(days=1), in seconds
SecondsPerDay == 86400

\* timedelta(hours=1, minutes=30), in seconds
time_gap_limit == 5400

\* local midnights a query can ask for
DayStarts == {0}

\* clock readings during one handler run (the clock only moves forward)
NowValues == {9000, 9001}

-----------------------------------------------------------------------------
(* JSON field values *)

Absent == [kind |-> "absent", v |-> 0]
Bad == [kind |-> "bad", v |-> 0]       \* a value of the wrong type or an unparsable string
Iso(t) == [kind |-> "iso", v |-> t]    \* an ISO-8601 string with an offset
IntVal(n) == [kind |-> "int", v |-> n]

None == <<>>
Some(t) == <<t>>
IsNone(o) == Len(o) = 0

RawEntry(s, p, d) == [start |-> s, stop |-> p, duration |-> d]

\* entries a /fnr response is built from: starts and stops that put gaps of
\* 5399, 5400 and 1800 seconds, overlaps and stops before starts between entries
TimedEntries ==
    { RawEntry(Iso(s), Iso(p), IntVal(-1)) :
        s \in {0, 3600, 7200}, p \in {1800, 1801, 7200} }

ReportedEntries ==
    { RawEntry(Iso(s), Iso(7200), IntVal(600)) : s \in {0, 7200} }

RunningEntries == { RawEntry(Iso(s), Absent, IntVal(-1)) : s \in {0, 7200} }

RejectedEntries ==
    { RawEntry(Absent, Iso(1800), IntVal(600)),
      RawEntry(Iso(SecondsPerDay), Iso(SecondsPerDay + 1800), IntVal(600)) }

\* an entry whose stop is a string that does not parse
UnparsableStopEntries == { RawEntry(Iso(3600), Bad, IntVal(-1)) }

\* an entry that starts inside the day and stops after the day's end
LateStopEntries == { RawEntry(Iso(7200), Iso(SecondsPerDay + 1800), IntVal(-1)) }

FnrEntries ==
    TimedEntries \cup ReportedEntries \cup RunningEntries \cup RejectedEntries
        \cup UnparsableStopEntries \cup LateStopEntries

SeqsUpTo(S, n) == UNION { [1..k -> S] : k \in 0..n }

-----------------------------------------------------------------------------
(* fnr_command: the helpers *)

\* faulty variant: a start that is missing or does not parse counts as the epoch
entry_start_dt_epoch(e) == Some(e.start.v)

entry_start_dt(e) ==
    IF e.start.kind = "iso" THEN Some(e.start.v) ELSE None

\* faulty variant: a stop after the day's end is cut to the day's end
entry_stop_dt_clipped(e, clock) ==
    IF e.stop.kind = "iso"
    THEN (IF e.stop.v > SecondsPerDay THEN SecondsPerDay ELSE e.stop.v)
    ELSE clock

entry_stop_dt(e, clock) ==
    IF e.stop.kind = "iso" THEN e.stop.v ELSE clock

entry_duration_seconds(e, clock) ==
    IF e.duration.kind = "int" /\ e.duration.v >= 0
    THEN e.duration.v
    ELSE IF ~IsNone(entry_start_dt(e))
         THEN entry_stop_dt(e, clock) - entry_start_dt(e)[1]
         ELSE 0

fnr_in_window(sdt, lo, hi) ==
    ~IsNone(sdt) /\ lo <= sdt[1] /\ sdt[1] < hi

\* faulty variant: the last entry of the list is not looked at
RECURSIVE fnr_filter_skips_last(_, _, _)
fnr_filter_skips_last(es, lo, hi) ==
    IF Len(es) <= 1 THEN <<>>
    ELSE IF fnr_in_window(entry_start_dt(Head(es)), lo, hi)
         THEN <<Head(es)>> \o fnr_filter_skips_last(Tail(es), lo, hi)
         ELSE fnr_filter_skips_last(Tail(es), lo, hi)

RECURSIVE fnr_filter(_, _, _)
fnr_filter(es, lo, hi) ==
    IF es = <<>> THEN <<>>
    ELSE IF fnr_in_window(entry_start_dt(Head(es)), lo, hi)
         THEN <<Head(es)>> \o fnr_filter(Tail(es), lo, hi)
         ELSE fnr_filter(Tail(es), lo, hi)

\* the key of filtered_entries.sort: every filtered entry has a start
sort_key(e) == entry_start_dt(e)[1]

\* list.sort is stable: an entry goes after every entry whose key is <= its own
RECURSIVE insert_sorted(_, _)
insert_sorted(e, s) ==
    IF s = <<>> THEN <<e>>
    ELSE IF sort_key(Head(s)) <= sort_key(e)
         THEN <<Head(s)>> \o insert_sorted(e, Tail(s))
         ELSE <<e>> \o s

RECURSIVE sort_by_start(_)
sort_by_start(es) ==
    IF es = <<>> THEN <<>>
    ELSE insert_sorted(es[Len(es)], sort_by_start(SubSeq(es, 1, Len(es) - 1)))

\* faulty variant: the gap measured from the block's first entry
prev_index_block_first(i_, j_) == i_

\* filtered_entries[j-1], the entry whose stop the gap is measured from
prev_index(i_, j_) == j_ - 1

\* faulty variant: a gap equal to the limit still extends the block
within_gap_limit_inclusive(next_start, prev_stop) ==
    next_start - prev_stop <= time_gap_limit

within_gap_limit(next_start, prev_stop) ==
    next_start - prev_stop < time_gap_limit

\* faulty variant: the block ends at the latest stop seen so far
extended_block_end_latest(block_end, stop_j) ==
    IF stop_j > block_end THEN stop_j ELSE block_end

\* faulty variant: the block keeps the stop of its first entry
extended_block_end_kept(block_end, stop_j) == block_end

extended_block_end(block_end, stop_j) == stop_j

\* a Python float division: a quotient, or ZeroDivisionError
py_div(n, d) ==
    IF d = 0 THEN [raised |-> TRUE, num |-> 0, den |-> 1]
    ELSE [raised |-> FALSE, num |-> n, den |-> d]

ZeroRatio == [raised |-> FALSE, num |-> 0, den |-> 1]

\* faulty variant: only a negative span is given the ratio 0.0
block_fnr_divides_zero_span(tracked, span) ==
    IF span >= 0 THEN py_div(tracked * 100, span) ELSE ZeroRatio

block_fnr(tracked, span) ==
    IF span > 0 THEN py_div(tracked * 100, span) ELSE ZeroRatio

-----------------------------------------------------------------------------
(* fnr_command: the handler *)

Entry(k) == filtered_entries[k + 1]     \* filtered_entries[k], 0-based as in the code

Terminal == {"done", "raised"}

\* the variables of fnr_command before it runs
FnrIdle ==
    /\ entries_data = <<>>
    /\ filtered_entries = <<>>
    /\ i = 0 /\ j = 0 /\ block_number = 1
    /\ current_block_start_dt = None
    /\ current_block_end_dt = 0
    /\ current_block_total_tracked_seconds = 0
    /\ results_message_parts = <<>>
    /\ reply = "none"
    /\ gap_log = <<>>
    /\ secs_log = <<>>

\* the variables of the totals loop before it runs
AggIdle ==
    /\ cmd = "none" /\ period = "daily"
    /\ toggl_token_map = {}
    /\ u_idx = 0
    /\ totals = <<>>
    /\ entries = <<>>
    /\ successful = <<>>
    /\ lines = <<>>
    /\ fetch_log = <<>>

EntIdle ==
    /\ ent_raw = RawEntry(Absent, Absent, Absent)
    /\ ent_path = "none"
    /\ ent_kept = FALSE
    /\ ent_secs = 0

\* the window variables when the window is given
WinIdle == utc_offset = 0 /\ target_date = 0

\* the wake variables of a bot that handles no /wake
WakeIdle ==
    /\ wake_map = <<>> /\ wake_cooldown = <<>>
    /\ wake_req = <<>> /\ wake_sent = <<>> /\ wake_reply = "none"

\* the Users table as the report handlers see it: not written
UsersIdle == users_table = <<>> /\ add_call = <<>>

\* get_application: both dictionaries start empty
ReplyIdle ==
    /\ wake_message_lookup = <<>> /\ user_active_wake = <<>>
    /\ reply_call = <<>> /\ forward_log = <<>> /\ reply_log = <<>>

\* the webhook as the handlers see it: the application is built, no request modelled
HookIdle == application_built = TRUE /\ hook_call = <<>> /\ hook_log = <<>>

\* the wrapper as the other handlers see it: not modelled
LogIdle == log_call = <<>> /\ usage_rows = <<>> /\ wrapper_log = <<>>

RestIdle == UsersIdle /\ ReplyIdle /\ HookIdle /\ LogIdle

\* the variables of the other handlers before they run
BotIdle == WinIdle /\ WakeIdle /\ RestIdle

Init ==
    /\ now \in NowValues
    /\ pc = "fetch"
    /\ start_boundary_utc \in DayStarts
    /\ end_boundary_utc = start_boundary_utc + SecondsPerDay
    /\ FnrIdle /\ AggIdle /\ EntIdle /\ BotIdle

\* time passes while a handler runs
Tick ==
    /\ pc \notin Terminal
    /\ now + 1 \in NowValues
    /\ now' = now + 1
    /\ UNCHANGED <<botVars, aggVars, entVars, pc, start_boundary_utc, end_boundary_utc, fnrVars>>

FnrReplies == {"auth_failed", "http_error", "network_error", "error_processing"}

\* requests.get, raise_for_status, resp.json()
FnrFetchFails ==
    /\ pc = "fetch"
    /\ \E r \in FnrReplies : reply' = r
    /\ pc' = "done"
    /\ UNCHANGED <<botVars, aggVars, entVars, now, start_boundary_utc, end_boundary_utc, entries_data,
                   filtered_entries, i, j, block_number, current_block_start_dt,
                   current_block_end_dt, current_block_total_tracked_seconds,
                   results_message_parts, gap_log, secs_log>>

FnrFetchOk ==
    /\ pc = "fetch"
    /\ \E body \in SeqsUpTo(FnrEntries, MaxEntries) : entries_data' = body
    /\ pc' = "filter"
    /\ UNCHANGED <<botVars, aggVars, entVars, now, start_boundary_utc, end_boundary_utc,
                   filtered_entries, i, j, block_number, current_block_start_dt,
                   current_block_end_dt, current_block_total_tracked_seconds,
                   results_message_parts, reply, gap_log, secs_log>>

\* the body is valid JSON and not a list (null): 'for e in entries_data' raises
\* TypeError outside the try, and the handler ends with it
FnrFetchBodyNotList ==
    /\ pc = "fetch"
    /\ reply' = "TypeError"
    /\ pc' = "raised"
    /\ UNCHANGED <<botVars, aggVars, entVars, now, start_boundary_utc, end_boundary_utc, entries_data,
                   filtered_entries, i, j, block_number, current_block_start_dt,
                   current_block_end_dt, current_block_total_tracked_seconds,
                   results_message_parts, gap_log, secs_log>>

\* filter to the local day, reply when nothing is left, sort by start
FnrFilterSort ==
    /\ pc = "filter"
    /\ LET kept == fnr_filter(entries_data, start_boundary_utc, end_boundary_utc) IN
         IF kept = <<>>
         THEN /\ filtered_entries' = kept
              /\ reply' = "no_entries"
              /\ pc' = "done"
         ELSE /\ filtered_entries' = sort_by_start(kept)
              /\ reply' = reply
              /\ pc' = "outer"
    /\ i' = 0 /\ block_number' = 1
    /\ UNCHANGED <<botVars, aggVars, entVars, now, start_boundary_utc, end_boundary_utc, entries_data, j,
                   current_block_start_dt, current_block_end_dt,
                   current_block_total_tracked_seconds, results_message_parts,
                   gap_log, secs_log>>

\* while i < len(filtered_entries): start of a new block
FnrBlockStart ==
    /\ pc = "outer"
    /\ i < Len(filtered_entries)
    /\ current_block_start_dt' = entry_start_dt(Entry(i))
    /\ current_block_end_dt' = entry_stop_dt(Entry(i), now)
    /\ current_block_total_tracked_seconds' = entry_duration_seconds(Entry(i), now)
    /\ secs_log' = Append(secs_log, entry_duration_seconds(Entry(i), now))
    /\ j' = i + 1
    /\ pc' = "inner"
    /\ UNCHANGED <<botVars, aggVars, entVars, now, start_boundary_utc, end_boundary_utc, entries_data,
                   filtered_entries, i, block_number, results_message_parts,
                   reply, gap_log>>

\* while j < len(filtered_entries): the gap test holds, entry j joins the block
FnrExtend ==
    /\ pc = "inner"
    /\ j < Len(filtered_entries)
    /\ LET prev_entry_stop_dt == entry_stop_dt(Entry(prev_index(i, j)), now)
           next_entry_start_dt == entry_start_dt(Entry(j))
       IN /\ ~IsNone(next_entry_start_dt)
          /\ within_gap_limit(next_entry_start_dt[1], prev_entry_stop_dt)
          /\ gap_log' = Append(gap_log, next_entry_start_dt[1] - prev_entry_stop_dt)
    /\ current_block_end_dt' =
           extended_block_end(current_block_end_dt, entry_stop_dt(Entry(j), now))
    /\ current_block_total_tracked_seconds' =
           current_block_total_tracked_seconds + entry_duration_seconds(Entry(j), now)
    /\ secs_log' = Append(secs_log, entry_duration_seconds(Entry(j), now))
    /\ j' = j + 1
    /\ UNCHANGED <<botVars, aggVars, entVars, now, pc, start_boundary_utc, end_boundary_utc, entries_data,
                   filtered_entries, i, block_number, current_block_start_dt,
                   results_message_parts, reply>>

\* the gap test fails: break
FnrBreak ==
    /\ pc = "inner"
    /\ j < Len(filtered_entries)
    /\ LET prev_entry_stop_dt == entry_stop_dt(Entry(prev_index(i, j)), now)
           next_entry_start_dt == entry_start_dt(Entry(j))
       IN /\ ~(~IsNone(next_entry_start_dt)
               /\ within_gap_limit(next_entry_start_dt[1], prev_entry_stop_dt))
          /\ gap_log' = Append(gap_log,
                 IF IsNone(next_entry_start_dt) THEN 0
                 ELSE next_entry_start_dt[1] - prev_entry_stop_dt)
    /\ pc' = "emit"
    /\ UNCHANGED <<botVars, aggVars, entVars, now, start_boundary_utc, end_boundary_utc, entries_data,
                   filtered_entries, i, j, block_number, current_block_start_dt,
                   current_block_end_dt, current_block_total_tracked_seconds,
                   results_message_parts, reply, secs_log>>

\* the inner loop ran off the end of the list
FnrInnerEnd ==
    /\ pc = "inner"
    /\ j >= Len(filtered_entries)
    /\ pc' = "emit"
    /\ UNCHANGED <<botVars, aggVars, entVars, now, start_boundary_utc, end_boundary_utc, fnrVars>>

\* faulty variant: the entry after the block is skipped
next_block_index_skips(i_, j_) == j_ + 1

\* faulty variant: the outer index is not moved
next_block_index_stays(i_, j_) == i_

\* i = j: the next block starts at the entry that ended this one
next_block_index(i_, j_) == j_

\* block calculation, the block's message part, i = j
FnrEmit ==
    /\ pc = "emit"
    /\ IF ~IsNone(current_block_start_dt)
       THEN LET block_span_seconds == current_block_end_dt - current_block_start_dt[1]
                fnr == block_fnr(current_block_total_tracked_seconds, block_span_seconds)
            IN IF fnr.raised
               THEN \* ZeroDivisionError leaves the handler
                    /\ reply' = "ZeroDivisionError"
                    /\ pc' = "raised"
                    /\ UNCHANGED <<results_message_parts, block_number, i>>
               ELSE /\ results_message_parts' = Append(results_message_parts,
                           [block_number |-> block_number,
                            first |-> i, last |-> j - 1,
                            span_start |-> current_block_start_dt[1],
                            span_end |-> current_block_end_dt,
                            tracked_seconds |-> current_block_total_tracked_seconds,
                            span_seconds |-> block_span_seconds,
                            fnr |-> fnr])
                    /\ block_number' = block_number + 1
                    /\ reply' = reply
                    /\ pc' = "outer"
                    /\ i' = next_block_index(i, j)
       ELSE /\ UNCHANGED <<results_message_parts, block_number, reply>>
            /\ pc' = "outer"
            /\ i' = next_block_index(i, j)
    /\ UNCHANGED <<botVars, aggVars, entVars, now, start_boundary_utc, end_boundary_utc, entries_data,
                   filtered_entries, j, current_block_start_dt,
                   current_block_end_dt, current_block_total_tracked_seconds,
                   gap_log, secs_log>>

\* the outer loop is over: the reply
FnrFinish ==
    /\ pc = "outer"
    /\ i >= Len(filtered_entries)
    /\ reply' = IF block_number = 1 THEN "no_blocks" ELSE "blocks"
    /\ pc' = "done"
    /\ UNCHANGED <<botVars, aggVars, entVars, now, start_boundary_utc, end_boundary_utc, entries_data,
                   filtered_entries, i, j, block_number, current_block_start_dt,
                   current_block_end_dt, current_block_total_tracked_seconds,
                   results_message_parts, gap_log, secs_log>>

Next ==
    \/ Tick
    \/ FnrFetchFails
    \/ FnrFetchOk
    \/ FnrFetchBodyNotList
    \/ FnrFilterSort
    \/ FnrBlockStart
    \/ FnrExtend
    \/ FnrBreak
    \/ FnrInnerEnd
    \/ FnrEmit
    \/ FnrFinish

Spec == Init /\ [][Next]_vars

\* ---- the handler from the fetched list on, scheduled

\* longest fetched list of the scheduled run
MaxLoopEntries == 3

\* entries that chain (gap 1800 s), that break (gap 5400 s), one still running and
\* one outside the day
LoopEntries ==
    { e \in TimedEntries : e.stop.v = 1800 }
        \cup { e \in RunningEntries : e.start.v = 7200 }
        \cup { e \in RejectedEntries : e.start.kind = "iso" }

\* resp.json() returns a list
LoopFetchOk ==
    /\ pc = "fetch"
    /\ \E body \in SeqsUpTo(LoopEntries, MaxLoopEntries) : entries_data' = body
    /\ pc' = "filter"
    /\ UNCHANGED <<botVars, aggVars, entVars, now, start_boundary_utc, end_boundary_utc,
                   filtered_entries, i, j, block_number, current_block_start_dt,
                   current_block_end_dt, current_block_total_tracked_seconds,
                   results_message_parts, reply, gap_log, secs_log>>

\* a step of the two nested while loops (lines 162-208)
LoopStep ==
    \/ FnrBlockStart
    \/ FnrExtend
    \/ FnrBreak
    \/ FnrInnerEnd
    \/ FnrEmit
    \/ FnrFinish

NextLoop ==
    \/ Tick
    \/ LoopFetchOk
    \/ FnrFilterSort
    \/ LoopStep

\* the loops hold no await: once entered, a step that can be taken is taken
SpecLoop == Init /\ [][NextLoop]_vars /\ WF_vars(LoopStep)

-----------------------------------------------------------------------------
(* today_command and leaderboard_command: the window test and the duration *)
(* rule, written inline in each handler                                     *)

\* datetime.fromisoformat(s.replace('Z', '+00:00')) of a truthy field, None on failure
parse_iso(f) == IF f.kind = "iso" THEN Some(f.v) ELSE None

\* today_command, one user: entry_start_dt and the filter of filtered_entries
today_entry_start_dt(e) == parse_iso(e.start)

today_in_window(sdt, lo, hi) ==
    ~IsNone(sdt) /\ lo <= sdt[1] /\ sdt[1] < hi

\* today_command, one user: dur_seconds of format_entry.  A stop that is present
\* and does not parse raises inside the try: dur_seconds = 0.
today_format_entry_seconds(e, clock) ==
    IF e.duration.kind = "int" /\ e.duration.v >= 0
    THEN e.duration.v
    ELSE IF IsNone(parse_iso(e.start)) \/ e.stop.kind = "bad"
         THEN 0
         ELSE (IF e.stop.kind = "absent" THEN clock ELSE e.stop.v) - e.start.v

\* today_command, 'all': safe_start_dt and the two continue tests
today_all_in_window(sdt, lo, hi) ==
    ~(IsNone(sdt)) /\ ~(~(lo <= sdt[1] /\ sdt[1] < hi))

\* today_command, 'all': what one entry that passed the tests adds to total_seconds
today_all_entry_seconds(e, clock) ==
    IF e.duration.kind = "int" /\ e.duration.v >= 0
    THEN e.duration.v
    ELSE IF IsNone(parse_iso(e.start)) \/ e.stop.kind = "bad"
         THEN 0
         ELSE (IF e.stop.kind = "absent" THEN clock ELSE e.stop.v) - e.start.v

\* faulty variant: the window closed at its end
leaderboard_in_window_closed(sdt, lo, hi) ==
    ~(IsNone(sdt)) /\ ~(~(lo <= sdt[1] /\ sdt[1] <= hi))

\* leaderboard_command: safe_start_dt and the two continue tests
leaderboard_in_window(sdt, lo, hi) ==
    ~(IsNone(sdt)) /\ ~(~(lo <= sdt[1] /\ sdt[1] < hi))

\* faulty variant: a reported duration of 0 is taken for a running entry
leaderboard_entry_seconds_positive_only(e, clock) ==
    IF e.duration.kind = "int" /\ e.duration.v > 0
    THEN e.duration.v
    ELSE IF IsNone(parse_iso(e.start)) \/ e.stop.kind = "bad"
         THEN 0
         ELSE (IF e.stop.kind = "absent" THEN clock ELSE e.stop.v) - e.start.v

\* leaderboard_command: what one entry that passed the tests adds to total_seconds
leaderboard_entry_seconds(e, clock) ==
    IF e.duration.kind = "int" /\ e.duration.v >= 0
    THEN e.duration.v
    ELSE IF IsNone(parse_iso(e.start)) \/ e.stop.kind = "bad"
         THEN 0
         ELSE (IF e.stop.kind = "absent" THEN clock ELSE e.stop.v) - e.start.v

-----------------------------------------------------------------------------
(* One raw entry through each code path *)

\* the Monday midnight of a weekly leaderboard, two days before the day at 0
WeekStarts == {0 - 2 * SecondsPerDay}

StartFields ==
    {Absent, Bad} \cup
    { Iso(t) : t \in {0 - 2 * SecondsPerDay - 1, 0 - 2 * SecondsPerDay, -1, 0, 1800,
                      8999, 9000, 9001, SecondsPerDay - 1, SecondsPerDay,
                      SecondsPerDay + 1} }

StopFields ==
    {Absent, Bad} \cup { Iso(t) : t \in {0, 1800, 3600, SecondsPerDay + 1800} }

DurationFields ==
    {Absent, Bad} \cup { IntVal(d) : d \in {-1, 0, 120} }

AllRawEntries ==
    { RawEntry(s, p, d) : s \in StartFields, p \in StopFields, d \in DurationFields }

InitEntry ==
    /\ now \in NowValues
    /\ pc = "entry"
    /\ period \in {"daily", "weekly"}
    /\ IF period = "daily"
       THEN /\ start_boundary_utc \in DayStarts
            /\ end_boundary_utc = start_boundary_utc + SecondsPerDay
       ELSE /\ start_boundary_utc \in WeekStarts
            /\ end_boundary_utc = now
    /\ ent_raw \in AllRawEntries
    /\ ent_path = "none" /\ ent_kept = FALSE /\ ent_secs = 0
    /\ cmd = "none" /\ toggl_token_map = {} /\ u_idx = 0 /\ totals = <<>>
    /\ entries = <<>> /\ successful = <<>> /\ lines = <<>>
    /\ fetch_log = <<>>
    /\ FnrIdle /\ BotIdle

EntryFrame ==
    UNCHANGED <<now, start_boundary_utc, end_boundary_utc, fnrVars, aggVars, botVars,
                ent_raw>>

\* fnr_command: the filter, then entry_duration_seconds
EntryFnr ==
    /\ pc = "entry" /\ period = "daily"
    /\ ent_path' = "fnr"
    /\ ent_kept' = fnr_in_window(entry_start_dt(ent_raw), start_boundary_utc, end_boundary_utc)
    /\ ent_secs' = IF ent_kept' THEN entry_duration_seconds(ent_raw, now) ELSE 0
    /\ pc' = "done"
    /\ EntryFrame

\* today_command for one user: the filter, then format_entry
EntryToday ==
    /\ pc = "entry" /\ period = "daily"
    /\ ent_path' = "today"
    /\ ent_kept' = today_in_window(today_entry_start_dt(ent_raw), start_boundary_utc, end_boundary_utc)
    /\ ent_secs' = IF ent_kept' THEN today_format_entry_seconds(ent_raw, now) ELSE 0
    /\ pc' = "done"
    /\ EntryFrame

\* today_command 'all': one pass of the loop over entries
EntryTodayAll ==
    /\ pc = "entry" /\ period = "daily"
    /\ ent_path' = "today_all"
    /\ ent_kept' = today_all_in_window(parse_iso(ent_raw.start), start_boundary_utc, end_boundary_utc)
    /\ ent_secs' = IF ent_kept' THEN today_all_entry_seconds(ent_raw, now) ELSE 0
    /\ pc' = "done"
    /\ EntryFrame

\* leaderboard_command, daily or weekly: one pass of the loop over entries
EntryLeaderboard ==
    /\ pc = "entry"
    /\ ent_path' = "leaderboard"
    /\ ent_kept' = leaderboard_in_window(parse_iso(ent_raw.start), start_boundary_utc, end_boundary_utc)
    /\ ent_secs' = IF ent_kept' THEN leaderboard_entry_seconds(ent_raw, now) ELSE 0
    /\ pc' = "done"
    /\ EntryFrame

NextEntry ==
    \/ Tick
    \/ EntryFnr
    \/ EntryToday
    \/ EntryTodayAll
    \/ EntryLeaderboard

SpecEntry == InitEntry /\ [][NextEntry]_vars

-----------------------------------------------------------------------------
(* today_command 'all' and leaderboard_command: the totals loop *)

\* most entries in one user's response body in the totals loop
MaxUserEntries == 2

\* the user keys, in the order sorted() puts them
KeyOrder == <<"alice", "bob", "carol">>

UserKeys == { KeyOrder[k] : k \in 1..Len(KeyOrder) }

KeyRank(u) == CHOOSE k \in 1..Len(KeyOrder) : KeyOrder[k] = u

\* faulty variant: the users in the order the map was filled in, not sorted
sorted_users_as_configured(map) == SelectSeq(<<"carol", "alice", "bob">>, LAMBDA u : u \in map)

\* [user_key for user_key, token in sorted(toggl_token_map.items())]
sorted_users(map) == SelectSeq(KeyOrder, LAMBDA u : u \in map)

\* what requests.get / raise_for_status / resp.json() can do besides returning a body
FetchFailures == {"http_401", "http_403", "http_500", "transport", "bad_json", "unexpected"}

\* the err strings the except clauses record.  resp.json() on a body that is not
\* JSON raises requests' JSONDecodeError, a RequestException, or a plain ValueError
\* with an older requests: either clause can be the one that catches it.  str(e)
\* of any other exception is its message, "" for one raised without arguments.
fetch_error(outcome) ==
    CASE outcome \in {"http_401", "http_403"} -> {"auth"}
      [] outcome = "http_500" -> {"http:"}
      [] outcome = "transport" -> {"net:"}
      [] outcome = "bad_json" -> {"net:", "other"}
      [] OTHER -> {"other", ""}

\* entries a response of the totals loop is built from
AggEntries ==
    { RawEntry(Iso(1800), Iso(3600), IntVal(600)),
      RawEntry(Iso(SecondsPerDay), Iso(SecondsPerDay + 600), IntVal(600)),
      RawEntry(Bad, Iso(3600), IntVal(600)),
      RawEntry(Iso(8400), Absent, IntVal(-1)),
      RawEntry(Iso(3600), Iso(3000), Absent) }

RECURSIVE today_all_total(_, _, _, _)
today_all_total(es, lo, hi, clock) ==
    IF es = <<>> THEN 0
    ELSE (IF today_all_in_window(parse_iso(Head(es).start), lo, hi)
          THEN today_all_entry_seconds(Head(es), clock) ELSE 0)
         + today_all_total(Tail(es), lo, hi, clock)

\* faulty variant: the window test is skipped, every entry with a start is added
RECURSIVE leaderboard_total_unfiltered(_, _, _, _)
leaderboard_total_unfiltered(es, lo, hi, clock) ==
    IF es = <<>> THEN 0
    ELSE (IF ~IsNone(parse_iso(Head(es).start))
          THEN leaderboard_entry_seconds(Head(es), clock) ELSE 0)
         + leaderboard_total_unfiltered(Tail(es), lo, hi, clock)

RECURSIVE leaderboard_total(_, _, _, _)
leaderboard_total(es, lo, hi, clock) ==
    IF es = <<>> THEN 0
    ELSE (IF leaderboard_in_window(parse_iso(Head(es).start), lo, hi)
          THEN leaderboard_entry_seconds(Head(es), clock) ELSE 0)
         + leaderboard_total(Tail(es), lo, hi, clock)

\* (user_key, total_seconds, None) and (user_key, None, err); outcome is history:
\* what the fetch did
Success(u, secs) == [user |-> u, secs |-> secs, err |-> "None", outcome |-> "ok"]
Failure(u, err, outcome) == [user |-> u, secs |-> 0, err |-> err, outcome |-> outcome]

\* faulty variant: equal totals change places
rank_insert_before_equal(x, s) ==
    LET RECURSIVE ins(_)
        ins(t) == IF t = <<>> THEN <<x>>
                  ELSE IF Head(t).secs > x.secs THEN <<Head(t)>> \o ins(Tail(t))
                  ELSE <<x>> \o t
    IN ins(s)

\* successful.sort(key=lambda x: x[1] or 0, reverse=True): stable, so x goes
\* after every element whose total is >= its own
rank_insert(x, s) ==
    LET RECURSIVE ins(_)
        ins(t) == IF t = <<>> THEN <<x>>
                  ELSE IF Head(t).secs >= x.secs THEN <<Head(t)>> \o ins(Tail(t))
                  ELSE <<x>> \o t
    IN ins(s)

RECURSIVE sort_successful(_)
sort_successful(s) ==
    IF s = <<>> THEN <<>>
    ELSE rank_insert(s[Len(s)], sort_successful(SubSeq(s, 1, Len(s) - 1)))

\* faulty variant: a total of 0 is taken for no total
successful_of_nonzero(ts) ==
    LET ok == SelectSeq(ts, LAMBDA t : t.err = "None" /\ t.secs # 0)
    IN [k \in 1..Len(ok) |-> [user |-> ok[k].user, secs |-> ok[k].secs]]

\* [(u, s) for (u, s, e) in totals if e is None]
successful_of(ts) ==
    LET ok == SelectSeq(ts, LAMBDA t : t.err = "None")
    IN [k \in 1..Len(ok) |-> [user |-> ok[k].user, secs |-> ok[k].secs]]

\* an err that 'if err' takes for true
Truthy(err) == err \notin {"None", ""}

\* faulty variant: the ranks are counted from 0
leaderboard_lines_zero_based(succ, ts) ==
    (IF succ = <<>> THEN << [kind |-> "no_totals", idx |-> 0, user |-> "", secs |-> 0] >>
     ELSE [k \in 1..Len(succ) |->
              [kind |-> "rank", idx |-> k - 1, user |-> succ[k].user, secs |-> succ[k].secs]])
    \o
    (LET errs == SelectSeq(ts, LAMBDA t : Truthy(t.err))
     IN [k \in 1..Len(errs) |->
            [kind |-> "error", idx |-> 0, user |-> errs[k].user, secs |-> 0]])

\* the ranking lines of the leaderboard, then one line per err that is truthy
leaderboard_lines(succ, ts) ==
    (IF succ = <<>> THEN << [kind |-> "no_totals", idx |-> 0, user |-> "", secs |-> 0] >>
     ELSE [k \in 1..Len(succ) |->
              [kind |-> "rank", idx |-> k, user |-> succ[k].user, secs |-> succ[k].secs]])
    \o
    (LET errs == SelectSeq(ts, LAMBDA t : Truthy(t.err))
     IN [k \in 1..Len(errs) |->
            [kind |-> "error", idx |-> 0, user |-> errs[k].user, secs |-> 0]])

\* the lines of /today all: one per user, in the order of totals
today_all_lines(ts) ==
    [k \in 1..Len(ts) |->
        [kind |-> IF Truthy(ts[k].err) THEN "error" ELSE "total",
         idx |-> 0, user |-> ts[k].user, secs |-> ts[k].secs]]

Users == sorted_users(toggl_token_map)

InitAgg ==
    /\ now \in NowValues
    /\ pc = "loop"
    /\ cmd \in {"today_all", "leaderboard"}
    /\ period \in (IF cmd = "leaderboard" THEN {"daily", "weekly"} ELSE {"daily"})
    /\ IF period = "daily"
       THEN /\ start_boundary_utc \in DayStarts
            /\ end_boundary_utc = start_boundary_utc + SecondsPerDay
       ELSE /\ start_boundary_utc \in WeekStarts
            /\ end_boundary_utc = now
    /\ toggl_token_map \in (SUBSET UserKeys) \ {{}}
    /\ u_idx = 0
    /\ totals = <<>> /\ entries = <<>> /\ successful = <<>> /\ lines = <<>>
    /\ fetch_log = <<>>
    /\ FnrIdle /\ EntIdle /\ BotIdle

AggFrame == UNCHANGED <<now, start_boundary_utc, end_boundary_utc, fnrVars, entVars,
                        botVars,
                        cmd, period, toggl_token_map>>

\* one pass of the loop: the fetch raises and an except clause records the user
AggUserFails ==
    /\ pc = "loop"
    /\ u_idx < Len(Users)
    /\ \E outcome \in FetchFailures : \E err \in fetch_error(outcome) :
           totals' = Append(totals, Failure(Users[u_idx + 1], err, outcome))
    /\ u_idx' = u_idx + 1
    /\ fetch_log' = Append(fetch_log, Users[u_idx + 1])
    /\ UNCHANGED <<pc, entries, successful, lines>>
    /\ AggFrame

\* one pass of the loop: the body is a list of entries, which are summed
AggUserOk ==
    /\ pc = "loop"
    /\ u_idx < Len(Users)
    /\ \E body \in SeqsUpTo(AggEntries, MaxUserEntries) :
           /\ entries' = body
           /\ totals' = Append(totals, Success(Users[u_idx + 1],
                  IF cmd = "leaderboard"
                  THEN leaderboard_total(body, start_boundary_utc, end_boundary_utc, now)
                  ELSE today_all_total(body, start_boundary_utc, end_boundary_utc, now)))
    /\ u_idx' = u_idx + 1
    /\ fetch_log' = Append(fetch_log, Users[u_idx + 1])
    /\ UNCHANGED <<pc, successful, lines>>
    /\ AggFrame

\* one pass of the loop: the body is valid JSON and not a list (null): 'for e in
\* entries' raises TypeError outside the try, and the handler ends with it
AggUserBodyNotList ==
    /\ pc = "loop"
    /\ u_idx < Len(Users)
    /\ pc' = "raised"
    /\ fetch_log' = Append(fetch_log, Users[u_idx + 1])
    /\ UNCHANGED <<u_idx, totals, entries, successful, lines>>
    /\ AggFrame

\* leaderboard_command after the loop: the ranking and the reply
AggRank ==
    /\ pc = "loop"
    /\ cmd = "leaderboard"
    /\ u_idx = Len(Users)
    /\ successful' = sort_successful(successful_of(totals))
    /\ lines' = leaderboard_lines(successful', totals)
    /\ pc' = "done"
    /\ UNCHANGED <<u_idx, totals, entries, fetch_log>>
    /\ AggFrame

\* today_command 'all' after the loop: the reply
AggTodayAllReply ==
    /\ pc = "loop"
    /\ cmd = "today_all"
    /\ u_idx = Len(Users)
    /\ lines' = today_all_lines(totals)
    /\ pc' = "done"
    /\ UNCHANGED <<u_idx, totals, entries, successful, fetch_log>>
    /\ AggFrame

NextAgg ==
    \/ Tick
    \/ AggUserFails
    \/ AggUserOk
    \/ AggUserBodyNotList
    \/ AggRank
    \/ AggTodayAllReply

SpecAgg == InitAgg /\ [][NextAgg]_vars

-----------------------------------------------------------------------------
(* The three handlers side by side: a run is one of fnr_command, the totals *)
(* loop, or one entry through one code path                                 *)

InitAll == Init \/ InitAgg \/ InitEntry

NextAll == Next \/ NextAgg \/ NextEntry

SpecAll == InitAll /\ [][NextAll]_vars

-----------------------------------------------------------------------------
(* leaderboard_command: the arguments and the time window *)

\* date.weekday() of 1970-01-01, a Thursday (Monday is 0)
EpochWeekday == 3

DaysPerWeek == 7

\* days the clock of a leaderboard request ranges over
WindowDays == 8

\* faulty variant: the week counted from Sunday
weekday_sunday_first(d) == (d + EpochWeekday + 1) % DaysPerWeek

\* date.weekday() of the date d days after 1970-01-01
weekday(d) == (d + EpochWeekday) % DaysPerWeek

\* t.astimezone(local_tz).date()
local_date(t, offset) == (t + offset) \div SecondsPerDay

\* datetime.combine(d, datetime.min.time()).replace(tzinfo=local_tz), as an instant
local_midnight(d, offset) == d * SecondsPerDay - offset

\* instants at, just after, in the middle of and just before a UTC midnight
WindowNows ==
    { d * SecondsPerDay + s :
        d \in 0..(WindowDays - 1), s \in {0, 1, 43200, SecondsPerDay - 1} }

\* the offsets of local_tz: UTC, +05:30, -05:00
UtcOffsets == {0, 19800, 0 - 18000}

\* dates a '%d/%m/%y' argument parses to
ParsedDates == {2}

InitWindow ==
    /\ now \in WindowNows
    /\ utc_offset \in UtcOffsets
    /\ target_date = local_date(now, utc_offset)
    /\ period = "daily"
    /\ pc = "args"
    /\ start_boundary_utc = 0 /\ end_boundary_utc = 0
    /\ cmd = "none" /\ toggl_token_map = {} /\ u_idx = 0 /\ totals = <<>>
    /\ entries = <<>> /\ successful = <<>> /\ lines = <<>>
    /\ fetch_log = <<>>
    /\ FnrIdle /\ EntIdle /\ WakeIdle /\ RestIdle

WindowFrame == UNCHANGED <<now, utc_offset, fnrVars, entVars, wakeVars, restVars, cmd,
                           toggl_token_map,
                           u_idx, totals, entries, successful, lines, fetch_log>>

\* the date argument ('-1' or a date, if any), then the period argument (if any)
LeaderboardArgs ==
    /\ pc = "args"
    /\ \E date_arg \in {"none", "-1", "date"} :
           target_date' \in
               (CASE date_arg = "-1" -> {local_date(now, utc_offset) - 1}
                  [] date_arg = "date" -> ParsedDates
                  [] OTHER -> {target_date})
    /\ \E period_arg \in {"none", "weekly", "week", "daily", "day"} :
           period' = (IF period_arg \in {"weekly", "week"} THEN "weekly" ELSE "daily")
    /\ pc' = "window"
    /\ UNCHANGED <<start_boundary_utc, end_boundary_utc>>
    /\ WindowFrame

\* start_local and end_local, as instants
LeaderboardWindow ==
    /\ pc = "window"
    /\ IF period = "daily"
       THEN /\ start_boundary_utc' = local_midnight(target_date, utc_offset)
            /\ end_boundary_utc' = start_boundary_utc' + SecondsPerDay
       ELSE LET today == local_date(now, utc_offset)
                monday == today - weekday(today)
            IN /\ start_boundary_utc' = local_midnight(monday, utc_offset)
               /\ end_boundary_utc' = now
    /\ pc' = "windowed"
    /\ UNCHANGED <<target_date, period>>
    /\ WindowFrame

NextWindow ==
    \/ LeaderboardArgs
    \/ LeaderboardWindow

SpecWindow == InitWindow /\ [][NextWindow]_vars

-----------------------------------------------------------------------------
(* wake: the rate limit of one wake per sender and target per hour *)

\* 'elapsed.total_seconds() < 3600'
WakeCooldown == 3600

\* the clock moves in steps of about half an hour
WakeStep == 1800

\* most steps of the clock
MaxWakeTicks == 2

\* most wake messages delivered
MaxWakeSent == 2

\* Telegram ids of the people who send /wake: one sender shows the limit of a pair
WakeSenders == {"u1"}

\* Telegram ids a /wake can name
WakeTargets == {"u1", "u2"}

\* the rows get_all_users_with_tele_id() returns
WakeRows == <<"u1", "u2">>

\* a wake_cooldown dict with no sender in it
NoCooldown == [s \in WakeSenders |-> None]

\* what the start of an instance preloads for a target: the column, or {} when
\* get_wake_cooldown returns None; nothing when the preload raises
Preloads(t) ==
    { [loaded |-> TRUE, last |-> wake_cooldown[t]],
      [loaded |-> TRUE, last |-> NoCooldown],
      [loaded |-> FALSE, last |-> NoCooldown] }

\* 'if tele_key not in wake_map: wake_map[tele_key] = get_wake_cooldown(..) or {}'
wake_map_loaded(t, db_ok) ==
    IF wake_map[t].loaded THEN wake_map
    ELSE [wake_map EXCEPT ![t] =
             [loaded |-> TRUE, last |-> IF db_ok THEN wake_cooldown[t] ELSE NoCooldown]]

\* last_iso is there, parses, and less than an hour has passed
rate_limited(last, clock) ==
    ~IsNone(last) /\ clock - last[1] < WakeCooldown

\* wake_map.setdefault(tele_key, {})[str(sender.id)] = datetime.now(utc).isoformat()
wake_map_stamped(map, s, t, clock) ==
    [map EXCEPT ![t] = [loaded |-> TRUE, last |-> [map[t].last EXCEPT ![s] = Some(clock)]]]

NoWake == <<>>

InitWake ==
    /\ now = 0
    /\ pc = "idle"
    /\ wake_cooldown = [t \in WakeTargets |-> NoCooldown]
    /\ wake_map \in { [t \in WakeTargets |-> [loaded |-> l, last |-> NoCooldown]] :
                          l \in BOOLEAN }
    /\ wake_req = NoWake
    /\ wake_sent = <<>>
    /\ wake_reply = "none"
    /\ start_boundary_utc = 0 /\ end_boundary_utc = 0
    /\ FnrIdle /\ AggIdle /\ EntIdle /\ WinIdle /\ RestIdle

WakeFrame ==
    UNCHANGED <<start_boundary_utc, end_boundary_utc, fnrVars, aggVars, entVars, winVars,
                restVars>>

\* time passes
WakeTick ==
    /\ \E d \in {WakeStep - 1, WakeStep} :
           /\ now + d <= MaxWakeTicks * WakeStep
           /\ now' = now + d
    /\ UNCHANGED <<pc, wakeVars>>
    /\ WakeFrame

\* a new instance of the bot starts and preloads wake_map
WakeColdStart ==
    /\ pc = "idle"
    /\ wake_map' \in [WakeTargets -> UNION { Preloads(t) : t \in WakeTargets }]
    /\ \A t \in WakeTargets : wake_map'[t] \in Preloads(t)
    /\ wake_map' # wake_map
    /\ UNCHANGED <<now, pc, wake_cooldown, wake_req, wake_sent, wake_reply>>
    /\ WakeFrame

\* /wake <target>: the already-studying check and the rate limit
WakeOne ==
    /\ pc = "idle"
    /\ \E s \in WakeSenders, t \in WakeTargets, studying \in BOOLEAN, db_ok \in BOOLEAN :
           IF studying
           THEN /\ wake_reply' = "already_studying"
                /\ wake_req' = NoWake
                /\ UNCHANGED <<pc, wake_map>>
           ELSE /\ wake_map' = wake_map_loaded(t, db_ok)
                /\ IF rate_limited(wake_map'[t].last[s], now)
                   THEN /\ wake_reply' = "once_per_hour"
                        /\ wake_req' = NoWake
                        /\ UNCHANGED pc
                   ELSE /\ pc' = "send"
                        /\ wake_req' = [sender |-> s, target |-> t, rows |-> <<>>]
                        /\ UNCHANGED wake_reply
    /\ UNCHANGED <<now, wake_cooldown, wake_sent>>
    /\ WakeFrame

\* /wake <target>: bot.send_message to the target
WakeOneSend ==
    /\ pc = "send"
    /\ \/ /\ Len(wake_sent) < MaxWakeSent
          /\ wake_sent' = Append(wake_sent, [sender |-> wake_req.sender,
                                             target |-> wake_req.target, at |-> now])
          /\ pc' = "confirm"
          /\ UNCHANGED wake_reply
       \/ /\ wake_reply' = "could_not_send"
          /\ pc' = "idle"
          /\ UNCHANGED wake_sent
    /\ UNCHANGED <<now, wake_map, wake_cooldown, wake_req>>
    /\ WakeFrame

\* /wake <target>: the confirmation in the chat; reply_text can raise, and the
\* handler ends there
WakeOneConfirm ==
    /\ pc = "confirm"
    /\ \/ wake_reply' = "sent" /\ pc' = "record"
       \/ wake_reply' = "raised" /\ pc' = "idle"
    /\ UNCHANGED <<now, wake_map, wake_cooldown, wake_req, wake_sent>>
    /\ WakeFrame

\* /wake <target>: the timestamp, in wake_map and, unless the update fails, in the table
WakeOneRecord ==
    /\ pc = "record"
    /\ wake_map' = wake_map_stamped(wake_map, wake_req.sender, wake_req.target, now)
    /\ \/ wake_cooldown' = [wake_cooldown EXCEPT ![wake_req.target] =
                                wake_map'[wake_req.target].last]
       \/ UNCHANGED wake_cooldown
    /\ pc' = "idle"
    /\ UNCHANGED <<now, wake_req, wake_sent, wake_reply>>
    /\ WakeFrame

\* /wake all: the rows of the users with a Telegram id
WakeAll ==
    /\ pc = "idle"
    /\ \E s \in WakeSenders, rows \in {WakeRows, <<>>} :
           IF rows = <<>>
           THEN /\ wake_reply' = "no_users"
                /\ UNCHANGED <<pc, wake_req>>
           ELSE /\ wake_req' = [sender |-> s, target |-> "", rows |-> rows]
                /\ pc' = "all"
                /\ UNCHANGED wake_reply
    /\ UNCHANGED <<now, wake_map, wake_cooldown, wake_sent>>
    /\ WakeFrame

\* /wake all: one pass of the loop over the rows
WakeAllRow ==
    /\ pc = "all"
    /\ wake_req.rows # <<>>
    /\ LET s == wake_req.sender
           t == Head(wake_req.rows)
       IN \E studying \in BOOLEAN, db_ok \in BOOLEAN, send_ok \in BOOLEAN,
             persisted \in BOOLEAN :
              IF t = s \/ studying
              THEN UNCHANGED <<wake_map, wake_cooldown, wake_sent>>
              ELSE LET loaded == wake_map_loaded(t, db_ok) IN
                   IF rate_limited(loaded[t].last[s], now) \/ ~send_ok
                   THEN /\ wake_map' = loaded
                        /\ UNCHANGED <<wake_cooldown, wake_sent>>
                   ELSE /\ Len(wake_sent) < MaxWakeSent
                        /\ wake_sent' = Append(wake_sent,
                               [sender |-> s, target |-> t, at |-> now])
                        /\ wake_map' = wake_map_stamped(loaded, s, t, now)
                        /\ wake_cooldown' =
                               IF persisted
                               THEN [wake_cooldown EXCEPT ![t] = wake_map'[t].last]
                               ELSE wake_cooldown
    /\ wake_req' = [wake_req EXCEPT !.rows = Tail(wake_req.rows)]
    /\ UNCHANGED <<now, pc, wake_reply>>
    /\ WakeFrame

\* /wake all: the summary
WakeAllDone ==
    /\ pc = "all"
    /\ wake_req.rows = <<>>
    /\ wake_reply' = "wake_all_completed"
    /\ pc' = "idle"
    /\ UNCHANGED <<now, wake_map, wake_cooldown, wake_req, wake_sent>>
    /\ WakeFrame

NextWake ==
    \/ WakeTick
    \/ WakeColdStart
    \/ WakeOne
    \/ WakeOneSend
    \/ WakeOneConfirm
    \/ WakeOneRecord
    \/ WakeAll
    \/ WakeAllRow
    \/ WakeAllDone

SpecWake == InitWake /\ [][NextWake]_vars

-----------------------------------------------------------------------------
(* add_user_command and save_token_to_db: the Users table *)

\* most rows the table is let grow to
MaxRows == 3

\* /add_user requests in flight at once (instances or threads of the function)
AddCallers == {"r1", "r2"}

AddNames == {"alice", "bob"}

AddTeleIds == {"101", "102"}

NoCall == [at |-> "idle", user_name |-> "", tele_id |-> "", result |-> "none"]

\* the reports and the other handlers run with the bot started and nothing else
CoreIdle ==
    /\ now = 0 /\ pc = "idle"
    /\ start_boundary_utc = 0 /\ end_boundary_utc = 0
    /\ FnrIdle /\ AggIdle /\ EntIdle /\ WinIdle /\ WakeIdle

\* select(..., count="exact").eq(column, value): the number of matching rows
count_rows(column, value) ==
    Cardinality({ k \in 1..Len(users_table) : users_table[k][column] = value })

InitUsers ==
    /\ users_table = <<>>
    /\ add_call = [r \in AddCallers |-> NoCall]
    /\ CoreIdle /\ ReplyIdle /\ HookIdle /\ LogIdle

UsersFrame == UNCHANGED <<coreVars, replyVars, hookVars, logVars>>

Returned(r, result) == [add_call EXCEPT ![r] = [@ EXCEPT !.at = "idle", !.result = result]]

\* /add_user <name> <token> passes the argument checks and calls save_token_to_db
AddUser(r) ==
    /\ add_call[r].at = "idle"
    /\ \E n \in AddNames, t \in AddTeleIds :
           add_call' = [add_call EXCEPT ![r] =
               [at |-> "check_name", user_name |-> n, tele_id |-> t, result |-> "none"]]
    /\ UNCHANGED users_table
    /\ UsersFrame

\* 1. the count of rows with this user_name; the request can raise
AddCheckName(r) ==
    /\ add_call[r].at = "check_name"
    /\ \/ add_call' =
             IF count_rows("user_name", add_call[r].user_name) > 0
             THEN Returned(r, "user_name already exists")
             ELSE [add_call EXCEPT ![r].at = "check_tele"]
       \/ add_call' = Returned(r, "error")
    /\ UNCHANGED users_table
    /\ UsersFrame

\* 2. the count of rows with this tele_id; the request can raise
AddCheckTele(r) ==
    /\ add_call[r].at = "check_tele"
    /\ \/ add_call' =
             IF count_rows("tele_id", add_call[r].tele_id) > 0
             THEN Returned(r, "tele_id already in use")
             ELSE [add_call EXCEPT ![r].at = "insert"]
       \/ add_call' = Returned(r, "error")
    /\ UNCHANGED users_table
    /\ UsersFrame

\* 3. the insert; the request can raise
AddInsert(r) ==
    /\ add_call[r].at = "insert"
    /\ \/ /\ Len(users_table) < MaxRows
          /\ users_table' = Append(users_table,
                 [user_name |-> add_call[r].user_name, tele_id |-> add_call[r].tele_id])
          /\ add_call' = Returned(r, "inserted")
       \/ /\ add_call' = Returned(r, "error")
          /\ UNCHANGED users_table
    /\ UsersFrame

NextUsers ==
    \E r \in AddCallers :
        \/ AddUser(r)
        \/ AddCheckName(r)
        \/ AddCheckTele(r)
        \/ AddInsert(r)

SpecUsers == InitUsers /\ [][NextUsers]_vars

-----------------------------------------------------------------------------
(* handle_wake_reply: replies to wake messages *)

\* most replies handled in one run
MaxReplies == 3

\* message ids of wake messages the bot sent
WakeMessageIds == {11, 12}

\* message ids of the bot's other messages
OtherBotMessageIds == {13}

\* what a tracked wake message maps to
wake_data(m) == [sender_id |-> "u1", target_id |-> "u2"]

\* the dictionary d without key k (del d[k])
without_key(d, k) == [x \in DOMAIN d \ {k} |-> d[x]]

\* faulty variant: the wake message stays tracked after the forward
lookup_after_forward_kept(lookup, m) == lookup

\* del wake_lookup[replied_message.message_id]
lookup_after_forward(lookup, m) == without_key(lookup, m)

\* the entry of the target is removed when it names this message
active_after_forward(active, target, m) ==
    IF target \in DOMAIN active /\ active[target] = m
    THEN without_key(active, target)
    ELSE active

NoReply == [at |-> "idle", message_id |-> 0, tracked |-> FALSE, sent |-> FALSE]

\* the wake messages tracked when the replies start to arrive
InitReply ==
    /\ \E tracked \in SUBSET WakeMessageIds :
         /\ wake_message_lookup = [m \in tracked |-> wake_data(m)]
         /\ \E active \in tracked \cup {0} :
              user_active_wake = IF active = 0 THEN <<>>
                                 ELSE [t \in {wake_data(active).target_id} |-> active]
    /\ reply_call = NoReply
    /\ forward_log = <<>>
    /\ reply_log = <<>>
    /\ CoreIdle /\ UsersIdle /\ HookIdle /\ LogIdle

ReplyFrame == UNCHANGED <<coreVars, usersVars, hookVars, logVars>>

\* the handler ends: what it did with this reply is recorded
Handled(notice) ==
    /\ reply_log' = Append(reply_log,
           [message_id |-> reply_call.message_id,
            forwarded_before |-> \E k \in 1..Len(forward_log) :
                                     /\ forward_log[k] = reply_call.message_id
                                     /\ ~reply_call.sent,
            tracked_before |-> reply_call.tracked,
            sent |-> reply_call.sent,
            tracked_after |-> reply_call.message_id \in DOMAIN wake_message_lookup,
            notice |-> notice])
    /\ reply_call' = NoReply

\* an update that is no reply, or a reply to a message of somebody else: return
WakeReplyIgnored ==
    /\ reply_call.at = "idle"
    /\ Len(reply_log) < MaxReplies
    /\ reply_log' = Append(reply_log,
           [message_id |-> 0, forwarded_before |-> FALSE, tracked_before |-> FALSE,
            sent |-> FALSE, tracked_after |-> FALSE, notice |-> "not_a_reply"])
    /\ UNCHANGED <<wake_message_lookup, user_active_wake, reply_call, forward_log>>
    /\ ReplyFrame

\* a reply to a message of the bot: tracked or not
WakeReplyArrives ==
    /\ reply_call.at = "idle"
    /\ Len(reply_log) < MaxReplies
    /\ \E m \in WakeMessageIds \cup OtherBotMessageIds :
         reply_call' = [at |-> IF m \in DOMAIN wake_message_lookup THEN "send" ELSE "expired",
                        message_id |-> m,
                        tracked |-> m \in DOMAIN wake_message_lookup,
                        sent |-> FALSE]
    /\ UNCHANGED <<wake_message_lookup, user_active_wake, forward_log, reply_log>>
    /\ ReplyFrame

\* bot.send_message to the original sender, then the invalidation; or it raises
WakeReplySend ==
    /\ reply_call.at = "send"
    /\ \/ /\ forward_log' = Append(forward_log, reply_call.message_id)
          /\ wake_message_lookup' =
                 lookup_after_forward(wake_message_lookup, reply_call.message_id)
          /\ user_active_wake' =
                 active_after_forward(user_active_wake,
                     wake_message_lookup[reply_call.message_id].target_id,
                     reply_call.message_id)
          /\ reply_call' = [reply_call EXCEPT !.at = "confirm", !.sent = TRUE]
       \/ /\ reply_call' = [reply_call EXCEPT !.at = "failed"]
          /\ UNCHANGED <<wake_message_lookup, user_active_wake, forward_log>>
    /\ UNCHANGED reply_log
    /\ ReplyFrame

\* "Your reply has been forwarded."; when it raises the except branch runs
WakeReplyConfirm ==
    /\ reply_call.at = "confirm"
    /\ \/ Handled("forwarded")
       \/ /\ reply_call' = [reply_call EXCEPT !.at = "failed"]
          /\ UNCHANGED reply_log
    /\ UNCHANGED <<wake_message_lookup, user_active_wake, forward_log>>
    /\ ReplyFrame

\* "Failed to forward your reply."; when it raises the handler raises
WakeReplyFailed ==
    /\ reply_call.at = "failed"
    /\ \/ Handled("failed")
       \/ Handled("none")
    /\ UNCHANGED <<wake_message_lookup, user_active_wake, forward_log>>
    /\ ReplyFrame

\* "This wake-up message has expired or has already been replied to."
WakeReplyExpired ==
    /\ reply_call.at = "expired"
    /\ \/ Handled("expired")
       \/ Handled("none")
    /\ UNCHANGED <<wake_message_lookup, user_active_wake, forward_log>>
    /\ ReplyFrame

NextReply ==
    \/ WakeReplyIgnored
    \/ WakeReplyArrives
    \/ WakeReplySend
    \/ WakeReplyConfirm
    \/ WakeReplyFailed
    \/ WakeReplyExpired

SpecReply == InitReply /\ [][NextReply]_vars

-----------------------------------------------------------------------------
(* telegram_webhook_handler: one webhook request *)

\* most requests answered in one run
MaxRequests == 2

\* request bodies: nothing, text that is no JSON, JSON that is falsy (null, {}, []),
\* and an update object
HookBodies == {"empty", "text", "falsy_json", "update"}

NoRequest == [at |-> "idle", is_json |-> FALSE, body |-> "empty",
              processed |-> 0, raised |-> "none"]

\* request.get_json(silent=True): None when the body does not parse
get_json_silent(body) == IF body = "update" THEN "update" ELSE "falsy"

\* json.loads(request.get_data(as_text=True)): raises when the body does not parse
json_loads(body) ==
    CASE body = "update" -> "update"
      [] body = "falsy_json" -> "falsy"
      [] OTHER -> "raise"

\* json_update as lines 117-123 compute it
json_update_of(is_json, body) == IF is_json THEN get_json_silent(body) ELSE json_loads(body)

InitHook ==
    /\ application_built \in BOOLEAN
    /\ hook_call = NoRequest
    /\ hook_log = <<>>
    /\ CoreIdle /\ UsersIdle /\ ReplyIdle /\ LogIdle

HookFrame == UNCHANGED <<coreVars, usersVars, replyVars, logVars>>

\* the handler returns: the response is recorded with what happened
Responds(call, response) ==
    /\ hook_log' = Append(hook_log,
           [is_json |-> call.is_json, body |-> call.body, processed |-> call.processed,
            raised |-> call.raised, response |-> response])
    /\ hook_call' = NoRequest

\* a request arrives; get_application returns the cached application, builds it,
\* or raises
HookGetApplication ==
    /\ hook_call.at = "idle"
    /\ Len(hook_log) < MaxRequests
    /\ \E is_json \in BOOLEAN, body \in HookBodies :
         LET call == [NoRequest EXCEPT !.is_json = is_json, !.body = body]
         IN \/ /\ hook_call' = [call EXCEPT !.at = "json"]
               /\ application_built' = TRUE
               /\ UNCHANGED hook_log
            \/ /\ ~application_built
               /\ Responds([call EXCEPT !.raised = "get_application"], "error_500")
               /\ UNCHANGED application_built
    /\ HookFrame

\* 1. the JSON of the request and the test of line 125
HookJson ==
    /\ hook_call.at = "json"
    /\ LET json_update == json_update_of(hook_call.is_json, hook_call.body)
       IN CASE json_update = "raise" ->
                 Responds([hook_call EXCEPT !.raised = "json.loads"], "error_500")
            [] json_update = "falsy" ->
                 Responds(hook_call, "no_json_400")
            [] OTHER ->
                 /\ hook_call' = [hook_call EXCEPT !.at = "update"]
                 /\ UNCHANGED hook_log
    /\ UNCHANGED application_built
    /\ HookFrame

\* 2. Update.de_json, 3. asyncio.run(application.process_update(update))
HookProcess ==
    /\ hook_call.at = "update"
    /\ \/ Responds([hook_call EXCEPT !.raised = "de_json"], "error_500")
       \/ Responds([hook_call EXCEPT !.processed = @ + 1,
                                     !.raised = "process_update"], "error_500")
       \/ Responds([hook_call EXCEPT !.processed = @ + 1], "ok")
    /\ UNCHANGED application_built
    /\ HookFrame

NextHook ==
    \/ HookGetApplication
    \/ HookJson
    \/ HookProcess

SpecHook == InitHook /\ [][NextHook]_vars

-----------------------------------------------------------------------------
(* log_command_usage: the wrapper of the command handlers *)

\* most invocations in one run
MaxInvocations == 2

\* what get_user_by_tele_id resolves the caller to (None when unknown or failing)
LoggedUsers == {"None", "alice"}

\* what the wrapped handler returns
HandlerResults == {"None", "value"}

\* what the wrapped handler raises
HandlerExceptions == {"TypeError", "NetworkError"}

\* log_command: the row is inserted, the insert fails inside (False is returned),
\* or the call itself raises
LogOutcomes == {"logged", "not_logged", "raises"}

NoInvocation == [at |-> "idle", user_name |-> "None", handler |-> "none",
                 value |-> "None", calls |-> <<>>]

\* faulty variant: the success log is not in a try of its own, so that when it
\* raises the outer except takes over
after_success_log_unguarded(outcome) == IF outcome = "raises" THEN "failure" ELSE "return"

\* lines 64-69: whatever log_command does, the wrapper goes on to return result
after_success_log(outcome) == "return"

InitLog ==
    /\ log_call = NoInvocation
    /\ usage_rows = <<>>
    /\ wrapper_log = <<>>
    /\ CoreIdle /\ UsersIdle /\ ReplyIdle /\ HookIdle

LogFrame == UNCHANGED <<coreVars, usersVars, replyVars, hookVars>>

\* log_command(user_name, command, success) with the given outcome
rows_after_log(user_name, command, success, outcome) ==
    IF outcome = "logged"
    THEN Append(usage_rows, [user_name |-> user_name, command |-> command,
                             response_success |-> success])
    ELSE usage_rows

\* the wrapper ends: the caller sees the result or the exception
Finished(call, seen, seen_value) ==
    /\ wrapper_log' = Append(wrapper_log,
           [handler |-> call.handler, value |-> call.value, calls |-> call.calls,
            seen |-> seen, seen_value |-> seen_value])
    /\ log_call' = NoInvocation

\* lines 21-58: user_name and full_cmd, every failure caught
WrapperResolve ==
    /\ log_call.at = "idle"
    /\ Len(wrapper_log) < MaxInvocations
    /\ \E u \in LoggedUsers :
         log_call' = [NoInvocation EXCEPT !.at = "handler", !.user_name = u]
    /\ UNCHANGED <<usage_rows, wrapper_log>>
    /\ LogFrame

\* line 61: the handler returns a result or raises
WrapperHandler ==
    /\ log_call.at = "handler"
    /\ \/ \E v \in HandlerResults :
            log_call' = [log_call EXCEPT !.at = "success", !.handler = "returned",
                                         !.value = v]
       \/ \E e \in HandlerExceptions :
            log_call' = [log_call EXCEPT !.at = "failure", !.handler = "raised",
                                         !.value = e]
    /\ UNCHANGED <<usage_rows, wrapper_log>>
    /\ LogFrame

\* lines 64-69: log_command(user_name, full_cmd, True), then return result
WrapperSuccess ==
    /\ log_call.at = "success"
    /\ \E outcome \in LogOutcomes :
         LET call == [log_call EXCEPT !.calls = Append(@, TRUE)]
         IN /\ usage_rows' = rows_after_log(log_call.user_name, "full_cmd", TRUE, outcome)
            /\ IF after_success_log(outcome) = "return"
               THEN Finished(call, "returned", call.value)
               ELSE /\ log_call' = [call EXCEPT !.at = "failure", !.value = "LogError"]
                    /\ UNCHANGED wrapper_log
    /\ LogFrame

\* lines 70-77: log_command(user_name, command_name, False), then raise
WrapperFailure ==
    /\ log_call.at = "failure"
    /\ \E outcome \in LogOutcomes :
         /\ usage_rows' = rows_after_log(log_call.user_name, "command_name", FALSE, outcome)
         /\ Finished([log_call EXCEPT !.calls = Append(@, FALSE)], "raised", log_call.value)
    /\ LogFrame

NextLog ==
    \/ WrapperResolve
    \/ WrapperHandler
    \/ WrapperSuccess
    \/ WrapperFailure

SpecLog == InitLog /\ [][NextLog]_vars

-----------------------------------------------------------------------------
(* Properties of fnr_command *)

RECURSIVE SumSeq(_)
SumSeq(s) == IF s = <<>> THEN 0 ELSE Head(s) + SumSeq(Tail(s))

NumEntries == Len(filtered_entries)
Blocks == results_message_parts
FnrDone == pc = "done" /\ reply = "blocks"

\* entries a and b (0-based positions of filtered_entries) are in one emitted block
SameBlock(a, b) ==
    \E n \in 1..Len(Blocks) :
        /\ Blocks[n].first <= a /\ a <= Blocks[n].last
        /\ Blocks[n].first <= b /\ b <= Blocks[n].last

StopIsIso(k) == Entry(k).stop.kind = "iso"

\* entries[k].start - entries[k-1].stop; for an entry k-1 without a stop, the gap
\* the handler measured against the clock
GapOf(k) ==
    IF StopIsIso(k - 1) THEN Entry(k).start.v - Entry(k - 1).stop.v
    ELSE gap_log[k]

\* the tracked seconds of entry k as section 4.1 of the design words them; for an
\* entry timed against the clock, the value the handler added
MemberSeconds(k) ==
    IF Entry(k).duration.kind = "int" /\ Entry(k).duration.v >= 0
    THEN Entry(k).duration.v
    ELSE IF StopIsIso(k) THEN Entry(k).stop.v - Entry(k).start.v
         ELSE secs_log[k + 1]

C2_BlockFields ==
    \A n \in 1..Len(Blocks) :
        LET b == Blocks[n] IN
        /\ b.span_start = Entry(b.first).start.v
        /\ IF StopIsIso(b.last) THEN b.span_end = Entry(b.last).stop.v
           ELSE b.span_end \in NowValues
        /\ b.tracked_seconds =
               SumSeq([m \in 1..(b.last - b.first + 1) |-> MemberSeconds(b.first + m - 1)])
        /\ b.span_seconds = b.span_end - b.span_start
        /\ \A k \in b.first..b.last :
               (~StopIsIso(k) /\ Entry(k).duration.v < 0) =>
                   \E t \in NowValues : secs_log[k + 1] = t - Entry(k).start.v

C2_Witness ==
    \E n \in 1..Len(Blocks) :
        LET b == Blocks[n] IN
        /\ b.last > b.first
        /\ StopIsIso(b.first) /\ StopIsIso(b.last)
        /\ Entry(b.first).stop.v > Entry(b.last).stop.v
        /\ b.span_end = Entry(b.last).stop.v
        /\ b.tracked_seconds # 0

\* the gap between any two entries a < b: start of the later-starting one minus stop
\* of the earlier-starting one
PairGap(a, b) ==
    Entry(b).start.v - (IF StopIsIso(a) THEN Entry(a).stop.v ELSE now)

\* C3 as claimed: any two entries of the sorted day, adjacent or not, whose gap is
\* strictly below the limit are in the same block.
C3_AnyPairGapRule ==
    FnrDone =>
        \A a \in 0..(NumEntries - 1) : \A b \in (a + 1)..(NumEntries - 1) :
            PairGap(a, b) < time_gap_limit => SameBlock(a, b)

\* C3 amended: two entries a < b are in the same block whenever every consecutive
\* gap between them (entries[m].start - entries[m-1].stop for a < m <= b) is
\* strictly below the limit.
C3_ChainedGapRule ==
    FnrDone =>
        \A a \in 0..(NumEntries - 1) : \A b \in (a + 1)..(NumEntries - 1) :
            (\A m \in (a + 1)..b : GapOf(m) < time_gap_limit) => SameBlock(a, b)

C3_Witness ==
    /\ FnrDone
    /\ \E a \in 0..(NumEntries - 1) : \E b \in (a + 2)..(NumEntries - 1) :
           /\ \A m \in (a + 1)..b : GapOf(m) < time_gap_limit
           /\ StopIsIso(a) /\ PairGap(a, b) >= time_gap_limit
           /\ SameBlock(a, b)

\* C9 as claimed: the ratio 100 * tracked_seconds / span_seconds of every emitted
\* block is never negative.
C9_RatioNonNegative ==
    \A n \in 1..Len(Blocks) :
        ~Blocks[n].fnr.raised => Blocks[n].fnr.num >= 0 /\ Blocks[n].fnr.den > 0

\* C10: a block whose span is 0 seconds has ratio exactly 0.0, and computing the
\* ratio of a block never divides by zero (the handler never raises there).
C10_ZeroSpanRatio ==
    /\ reply # "ZeroDivisionError"
    /\ \A n \in 1..Len(Blocks) :
           /\ ~Blocks[n].fnr.raised
           /\ Blocks[n].fnr.den # 0
           /\ Blocks[n].span_seconds = 0 => Blocks[n].fnr = ZeroRatio

C10_Witness ==
    \E n \in 1..Len(Blocks) :
        /\ Blocks[n].span_seconds = 0
        /\ Blocks[n].tracked_seconds > 0
        /\ Blocks[n].fnr = ZeroRatio

-----------------------------------------------------------------------------
(* Properties of the window test and the duration rule *)

EntryDone == pc = "done" /\ ent_path # "none"

StartInWindow ==
    /\ ent_raw.start.kind = "iso"
    /\ start_boundary_utc <= ent_raw.start.v
    /\ ent_raw.start.v < end_boundary_utc

\* C6: in each of the four code paths (fnr, today for one user, today all,
\* leaderboard) an entry is kept exactly when its start parses and
\* window.start <= start < window.end: a start at window.start is kept, a start at
\* window.end is dropped, and nothing outside the window is kept.
C6_WindowFilter ==
    EntryDone =>
        /\ ent_kept <=> StartInWindow
        /\ (ent_raw.start.kind = "iso" /\ ent_raw.start.v = start_boundary_utc) => ent_kept
        /\ (ent_raw.start.kind = "iso" /\ ent_raw.start.v = end_boundary_utc) => ~ent_kept

C6_Witness ==
    /\ EntryDone
    /\ ent_path = "leaderboard" /\ period = "weekly"
    /\ ent_raw.start.kind = "iso" /\ ent_raw.start.v = end_boundary_utc - 1
    /\ ent_kept

DurationReported ==
    ent_raw.duration.kind = "int" /\ ent_raw.duration.v >= 0

\* C7: a kept entry whose duration is an integer >= 0 counts that duration whatever
\* its start and stop are; one whose duration is absent, not an integer or negative
\* counts stop - start, with the clock for the stop when the stop is missing.
C7_DurationRule ==
    (EntryDone /\ ent_kept) =>
        /\ DurationReported => ent_secs = ent_raw.duration.v
        /\ (~DurationReported /\ ent_raw.stop.kind = "iso") =>
               ent_secs = ent_raw.stop.v - ent_raw.start.v
        /\ (~DurationReported /\ ent_raw.stop.kind = "absent") =>
               ent_secs = now - ent_raw.start.v

C7_Witness ==
    /\ EntryDone /\ ent_kept
    /\ ent_path = "leaderboard"
    /\ ent_raw.duration = IntVal(0)
    /\ ent_raw.stop.kind = "iso" /\ ent_raw.stop.v - ent_raw.start.v = 1800
    /\ ent_secs = 0

\* C8 as claimed: the tracked seconds an entry contributes are >= 0 in every code
\* path, also for an entry whose stop precedes its start and whose duration is
\* absent or negative.
C8_TrackedNonNegative ==
    EntryDone => ent_secs >= 0

\* C11 as claimed: in every code path (fnr as in today and the leaderboard) a kept
\* entry whose stop is absent or does not parse, and whose duration is missing or
\* negative, counts the clock minus its start, not zero.
C11_StopSubstitution ==
    (EntryDone /\ ent_kept /\ ~DurationReported
        /\ ent_raw.stop.kind \in {"absent", "bad"}) =>
        ent_secs = now - ent_raw.start.v

-----------------------------------------------------------------------------
(* Properties of the totals loop and the ranking *)

\* C4 as claimed: whatever each user's fetch does (a body, an auth, network or
\* other failure, a malformed body), the run never raises out of the loop, and
\* when it ends there is exactly one result per configured user, in key order,
\* each either a total or a failure.
C4_OneResultPerUser ==
    /\ pc # "raised"
    /\ pc = "done" =>
          /\ Len(totals) = Cardinality(toggl_token_map)
          /\ \A k \in 1..Len(totals) :
                 /\ totals[k].user = Users[k]
                 /\ (totals[k].err = "None") <=> (totals[k].outcome = "ok")

\* C5: the leaderboard lists the successful users by total, largest first, and
\* users with equal totals in ascending user_key order.
C5_RankingOrder ==
    (pc = "done" /\ cmd = "leaderboard") =>
        \A p \in 1..Len(successful) : \A q \in (p + 1)..Len(successful) :
            /\ successful[p].secs >= successful[q].secs
            /\ successful[p].secs = successful[q].secs =>
                   KeyRank(successful[p].user) < KeyRank(successful[q].user)

C5_Witness ==
    /\ pc = "done" /\ cmd = "leaderboard"
    /\ Len(successful) = 3
    /\ successful[1].user = "carol"
    /\ successful[1].secs > successful[2].secs
    /\ successful[2].secs = successful[3].secs
    /\ successful[2].user = "alice" /\ successful[3].user = "bob"

-----------------------------------------------------------------------------
(* Properties that hold of fnr_command and of the totals loop alike *)

\* the response body without the entries whose start is missing or does not parse
WithStart(es) == SelectSeq(es, LAMBDA e : e.start.kind = "iso")

\* fnr_command has filtered and sorted the body
FnrFiltered ==
    /\ cmd = "none" /\ ent_path = "none"
    /\ pc \in {"outer", "inner", "emit", "done"}
    /\ reply \in {"none", "no_entries", "no_blocks", "blocks"}
    /\ (pc = "done" => reply # "none")

\* the totals loop has just summed the body of a user
UserSummed ==
    /\ cmd # "none" /\ u_idx > 0
    /\ totals[u_idx].outcome = "ok"

\* total_seconds of a body as the running command sums it
TotalOf(es, clock) ==
    IF cmd = "leaderboard"
    THEN leaderboard_total(es, start_boundary_utc, end_boundary_utc, clock)
    ELSE today_all_total(es, start_boundary_utc, end_boundary_utc, clock)

\* C12: an entry whose start is missing or does not parse is a member of no block
\* and is counted in no total, and it changes nothing else: the list the blocks are
\* cut from, and a user's total, are those of the body with such entries removed.
C12_NoStartNoEffect ==
    /\ FnrFiltered =>
          /\ \A k \in 0..(NumEntries - 1) : Entry(k).start.kind = "iso"
          /\ filtered_entries =
                 sort_by_start(fnr_filter(WithStart(entries_data),
                                          start_boundary_utc, end_boundary_utc))
          /\ \A n \in 1..Len(Blocks) :
                 0 <= Blocks[n].first /\ Blocks[n].last < NumEntries
    /\ UserSummed =>
          \E t \in NowValues : totals[u_idx].secs = TotalOf(WithStart(entries), t)

C12_Witness ==
    /\ FnrDone
    /\ Len(entries_data) = 3 /\ entries_data[2].start.kind = "absent"
    /\ NumEntries = 2 /\ Len(Blocks) = 1
    /\ Blocks[1].tracked_seconds > 0

\* the positions of a body whose entry passes the window filter
InWindowPositions(es) ==
    { k \in 1..Len(es) :
        /\ es[k].start.kind = "iso"
        /\ start_boundary_utc <= es[k].start.v
        /\ es[k].start.v < end_boundary_utc }

\* the tracked seconds of one entry as the running command computes them
SecondsOf(e, clock) ==
    IF cmd = "leaderboard" THEN leaderboard_entry_seconds(e, clock)
    ELSE today_all_entry_seconds(e, clock)

RECURSIVE SumAt(_, _, _)
SumAt(es, K, clock) ==
    IF K = {} THEN 0
    ELSE LET k == CHOOSE x \in K : TRUE
         IN SecondsOf(es[k], clock) + SumAt(es, K \ {k}, clock)

\* C13: the total of a user whose fetch succeeded is the sum of the tracked seconds
\* of exactly the entries that pass the window filter, each added once; an entry
\* outside the window adds nothing.
C13_TotalIsWindowSum ==
    UserSummed =>
        \E t \in NowValues :
            totals[u_idx].secs = SumAt(entries, InWindowPositions(entries), t)

C13_Witness ==
    /\ UserSummed
    /\ Len(entries) = 2
    /\ InWindowPositions(entries) = {2}
    /\ entries[1].start.kind = "iso" /\ entries[1].duration = IntVal(600)
    /\ totals[u_idx].secs = 600

\* C14: a user whose fetch succeeded and who has no entry inside the window (an
\* empty body, or only entries outside the window or without a usable start) is a
\* success with total exactly 0, not a failure, and is listed with that total.
C14_EmptyWindowIsZero ==
    /\ (UserSummed /\ InWindowPositions(entries) = {}) =>
           /\ totals[u_idx].secs = 0
           /\ totals[u_idx].err = "None"
    /\ (pc = "done" /\ cmd # "none") =>
           \A k \in 1..Len(totals) :
               totals[k].outcome = "ok" =>
                   \E r \in 1..Len(lines) :
                       /\ lines[r].kind = (IF cmd = "leaderboard" THEN "rank" ELSE "total")
                       /\ lines[r].user = totals[k].user
                       /\ lines[r].secs = totals[k].secs

C14_Witness ==
    /\ pc = "done" /\ cmd = "leaderboard"
    /\ UserSummed
    /\ Len(entries) = 2 /\ InWindowPositions(entries) = {}
    /\ Len(successful) = 2
    /\ successful[1].secs > 0
    /\ lines[2].kind = "rank" /\ lines[2].user = totals[u_idx].user
    /\ lines[2].secs = 0

\* the failure kind an err string stands for
KindOf(err) ==
    CASE err = "auth" -> "auth"
      [] err = "net:" -> "network"
      [] OTHER -> "other"

\* C15 as claimed: every fetch failure is recorded with one kind of auth, network
\* and other: HTTP 401 and 403 as auth, a failure of the transport as network, and
\* every other failure, a malformed response body included, as other.
C15_FailureKinds ==
    \A k \in 1..Len(totals) :
        totals[k].outcome # "ok" =>
            /\ totals[k].err # "None"
            /\ KindOf(totals[k].err) =
                   (CASE totals[k].outcome \in {"http_401", "http_403"} -> "auth"
                      [] totals[k].outcome = "transport" -> "network"
                      [] OTHER -> "other")

\* the users of the lines of one kind
LineUsers(kind) == { lines[r].user : r \in { x \in 1..Len(lines) : lines[x].kind = kind } }

LineCount(kind) == Cardinality({ x \in 1..Len(lines) : lines[x].kind = kind })

UsersWith(ok) ==
    { totals[k].user : k \in { x \in 1..Len(totals) : (totals[x].outcome = "ok") = ok } }

\* C16 as claimed: when the leaderboard replies, the ranking holds exactly the users
\* whose fetch succeeded and the failure list exactly the users whose fetch failed:
\* every configured user is in one of the two and none is in both.
C16_RankingFailurePartition ==
    (pc = "done" /\ cmd = "leaderboard") =>
        /\ LineUsers("rank") = UsersWith(TRUE)
        /\ LineUsers("error") = UsersWith(FALSE)
        /\ LineUsers("rank") \cap LineUsers("error") = {}
        /\ LineUsers("rank") \cup LineUsers("error") = toggl_token_map
        /\ LineCount("rank") + LineCount("error") = Cardinality(toggl_token_map)

\* C17: the ranks of the leaderboard are 1..n in list order, starting at 1 and
\* rising by one per line; users with equal totals get consecutive ranks, not the
\* same rank.
C17_RanksAreOneToN ==
    (pc = "done" /\ cmd = "leaderboard") =>
        /\ LineCount("rank") = Len(successful)
        /\ \A r \in 1..Len(successful) :
               /\ lines[r].kind = "rank"
               /\ lines[r].idx = r
               /\ lines[r].user = successful[r].user
               /\ lines[r].secs = successful[r].secs

C17_Witness ==
    /\ pc = "done" /\ cmd = "leaderboard"
    /\ Len(successful) = 3
    /\ successful[1].secs = successful[2].secs
    /\ successful[2].secs > successful[3].secs
    /\ lines[1].idx = 1 /\ lines[2].idx = 2 /\ lines[3].idx = 3

\* the clock has not moved since the handler started: every reading was now
ClockStill == \A t \in NowValues : now <= t

\* C18 as claimed: for one user's body, the tracked seconds of all focus blocks of
\* fnr_command add up to the total the leaderboard (and /today all) computes from
\* the same body and window.
C18_BlockSumEqualsTotal ==
    (FnrDone /\ ClockStill) =>
        LET block_sum == SumSeq([n \in 1..Len(Blocks) |-> Blocks[n].tracked_seconds])
        IN /\ block_sum = leaderboard_total(entries_data, start_boundary_utc,
                                            end_boundary_utc, now)
           /\ block_sum = today_all_total(entries_data, start_boundary_utc,
                                          end_boundary_utc, now)

\* C19 as claimed: a block whose span is 0 seconds has exactly one member (whose
\* start equals its stop); no block of two or more members has span 0.
C19_ZeroSpanSingleMember ==
    \A n \in 1..Len(Blocks) :
        Blocks[n].span_seconds = 0 =>
            /\ Blocks[n].first = Blocks[n].last
            /\ StopIsIso(Blocks[n].first)
            /\ Entry(Blocks[n].first).stop.v = Entry(Blocks[n].first).start.v

\* C19 amended: a block has span 0 exactly when the stop of its last member (the
\* clock when that stop is missing or does not parse) equals the start of its
\* first member; for a block of one member that is start = stop of the member.
C19_ZeroSpanRule ==
    \A n \in 1..Len(Blocks) :
        LET b == Blocks[n] IN
        /\ StopIsIso(b.last) =>
               (b.span_seconds = 0 <=> Entry(b.last).stop.v = Entry(b.first).start.v)
        /\ ~StopIsIso(b.last) =>
               \E t \in NowValues :
                   /\ b.span_seconds = t - Entry(b.first).start.v
                   /\ b.span_seconds = 0 <=> t = Entry(b.first).start.v

C19_Witness ==
    \E n \in 1..Len(Blocks) :
        /\ Blocks[n].span_seconds = 0
        /\ Blocks[n].last > Blocks[n].first
        /\ Entry(Blocks[n].first).stop.v > Entry(Blocks[n].first).start.v

\* entry k of filtered_entries stops after the end of the window
StopsLate(k) == StopIsIso(k) /\ Entry(k).stop.v > end_boundary_utc

\* C20: an entry that starts inside the window and stops after window.end is kept
\* and is not cut at window.end: in every code path it counts its reported
\* duration or its whole stop - start, and a block it ends has its stop as
\* span_end.
C20_NoClipping ==
    /\ (EntryDone /\ StartInWindow /\ ent_raw.stop.kind = "iso"
            /\ ent_raw.stop.v > end_boundary_utc) =>
           /\ ent_kept
           /\ ent_secs = (IF DurationReported THEN ent_raw.duration.v
                          ELSE ent_raw.stop.v - ent_raw.start.v)
    /\ \A n \in 1..Len(Blocks) :
           LET b == Blocks[n] IN
           /\ StopsLate(b.last) =>
                  /\ b.span_end = Entry(b.last).stop.v
                  /\ b.span_seconds = Entry(b.last).stop.v - Entry(b.first).start.v
           /\ \A k \in b.first..b.last :
                  (StopsLate(k) /\ Entry(k).duration.v < 0) =>
                      secs_log[k + 1] = Entry(k).stop.v - Entry(k).start.v

C20_Witness ==
    \E n \in 1..Len(Blocks) :
        /\ Blocks[n].last > Blocks[n].first
        /\ StopsLate(Blocks[n].last)
        /\ Blocks[n].span_end > end_boundary_utc
        /\ Blocks[n].tracked_seconds > SecondsPerDay - Entry(Blocks[n].last).start.v

-----------------------------------------------------------------------------
(* Further properties of fnr_command *)

\* C21: filtering an already filtered list with the same window returns it
\* unchanged, same entries in the same order: both the filtered body and the
\* sorted list the blocks are cut from.
C21_FilterIdempotent ==
    LET once == fnr_filter(entries_data, start_boundary_utc, end_boundary_utc)
    IN /\ fnr_filter(once, start_boundary_utc, end_boundary_utc) = once
       /\ FnrFiltered =>
              fnr_filter(filtered_entries, start_boundary_utc, end_boundary_utc)
                  = filtered_entries

C21_Witness ==
    /\ FnrFiltered
    /\ Len(entries_data) = 3 /\ NumEntries = 2
    /\ entries_data[1].start.kind = "iso" /\ entries_data[1].start.v = end_boundary_utc
    /\ fnr_filter(filtered_entries, start_boundary_utc, end_boundary_utc)
           = filtered_entries

-----------------------------------------------------------------------------
(* Properties of the leaderboard window *)

\* the local wall-clock reading of window.start, in seconds since 1970-01-01 00:00
StartWall == start_boundary_utc + utc_offset

\* day numbers that are Mondays: 1970-01-05 is one
IsMonday(d) == d % DaysPerWeek = DaysPerWeek - EpochWeekday

\* C22: a weekly window starts at local midnight of the most recent Monday (today
\* when today is a Monday): the start is not in the future and less than 7 days
\* before now; a daily window is [local midnight of the target date, that
\* midnight + 24 hours).
C22_WindowBounds ==
    pc = "windowed" =>
        IF period = "weekly"
        THEN /\ StartWall % SecondsPerDay = 0
             /\ IsMonday(StartWall \div SecondsPerDay)
             /\ start_boundary_utc <= now
             /\ now - start_boundary_utc < DaysPerWeek * SecondsPerDay
             /\ IsMonday(local_date(now, utc_offset)) =>
                    StartWall \div SecondsPerDay = local_date(now, utc_offset)
             /\ end_boundary_utc = now
        ELSE /\ StartWall = target_date * SecondsPerDay
             /\ end_boundary_utc = start_boundary_utc + SecondsPerDay

C22_Witness ==
    /\ pc = "windowed" /\ period = "weekly"
    /\ utc_offset # 0
    /\ now - start_boundary_utc > (DaysPerWeek - 1) * SecondsPerDay
    /\ IsMonday(StartWall \div SecondsPerDay)

-----------------------------------------------------------------------------
(* Further properties of the totals loop *)

\* C23: in one run the users are fetched one after the other in ascending user_key
\* order, each at most once and, when the run ends, exactly once (a failed fetch is
\* not tried again); a fetch starts only when the result of the one before is in
\* the list, and the list is in ascending user_key order.
C23_SequentialFetches ==
    cmd # "none" =>
        /\ \A a \in 1..Len(fetch_log) : \A b \in (a + 1)..Len(fetch_log) :
               KeyRank(fetch_log[a]) < KeyRank(fetch_log[b])
        /\ \A a \in 1..Len(fetch_log) : fetch_log[a] \in toggl_token_map
        /\ pc = "done" =>
               { fetch_log[a] : a \in 1..Len(fetch_log) } = toggl_token_map
        /\ pc = "loop" => Len(fetch_log) = Len(totals)
        /\ Len(totals) <= Len(fetch_log) /\ Len(fetch_log) <= Len(totals) + 1
        /\ \A k \in 1..Len(totals) : totals[k].user = fetch_log[k]
        /\ \A a \in 1..Len(totals) : \A b \in (a + 1)..Len(totals) :
               KeyRank(totals[a].user) < KeyRank(totals[b].user)

C23_Witness ==
    /\ pc = "done" /\ cmd = "leaderboard"
    /\ fetch_log = <<"alice", "bob", "carol">>
    /\ Len(totals) = 3
    /\ totals[1].outcome = "transport"
    /\ totals[2].outcome = "ok" /\ totals[3].outcome = "ok"

-----------------------------------------------------------------------------
(* Properties of wake *)

\* C24 as claimed: two wake messages of one sender delivered to one target are at
\* least 3600 seconds apart, whatever the sequence of /wake <target> and /wake all
\* commands.
C24_WakeRateLimit ==
    \A a \in 1..Len(wake_sent) : \A b \in (a + 1)..Len(wake_sent) :
        (wake_sent[a].sender = wake_sent[b].sender
            /\ wake_sent[a].target = wake_sent[b].target) =>
            wake_sent[b].at - wake_sent[a].at >= WakeCooldown

-----------------------------------------------------------------------------
(* Properties of the Users table *)

\* C25 as claimed: after any /add_user calls, also calls whose checks and inserts
\* interleave, no two rows of the Users table have the same user_name and no two
\* have the same tele_id.
C25_UniqueRows ==
    \A a \in 1..Len(users_table) : \A b \in (a + 1)..Len(users_table) :
        /\ users_table[a].user_name # users_table[b].user_name
        /\ users_table[a].tele_id # users_table[b].tele_id

-----------------------------------------------------------------------------
(* Properties of handle_wake_reply *)

Forwards(m) == Cardinality({ k \in 1..Len(forward_log) : forward_log[k] = m })

\* C26: at most one reply to a wake message is forwarded; a forwarded message is
\* no longer in wake_message_lookup, and every reply handled after the forward
\* was not sent on and got the expired notice (or none, when the notice could not
\* be sent); a reply whose forward failed leaves the message tracked.
C26_OneMessageLimit ==
    /\ \A m \in WakeMessageIds \cup OtherBotMessageIds :
         /\ Forwards(m) <= 1
         /\ Forwards(m) = 1 => m \notin DOMAIN wake_message_lookup
    /\ \A k \in 1..Len(reply_log) :
         /\ reply_log[k].forwarded_before =>
                /\ ~reply_log[k].sent
                /\ reply_log[k].notice \in {"expired", "none"}
         /\ reply_log[k].sent => reply_log[k].tracked_before
         /\ (reply_log[k].tracked_before /\ ~reply_log[k].sent) =>
                /\ reply_log[k].tracked_after
                /\ reply_log[k].notice \in {"failed", "none"}

\* a failed forward, then a forwarded reply, then a reply that finds it expired
C26_Witness ==
    \E a, b, c \in 1..Len(reply_log) :
        /\ a < b /\ b < c
        /\ reply_log[a].message_id = reply_log[b].message_id
        /\ reply_log[b].message_id = reply_log[c].message_id
        /\ reply_log[a].tracked_before /\ ~reply_log[a].sent
        /\ reply_log[b].sent
        /\ reply_log[c].forwarded_before /\ reply_log[c].notice = "expired"

-----------------------------------------------------------------------------
(* Properties of telegram_webhook_handler *)

\* the request carries a JSON update that is not empty
CarriesUpdate(r) == r.body = "update"

\* the request carries no JSON: no body, or a body that is no JSON
CarriesNoJson(r) == r.body \in {"empty", "text"}

\* C27 as claimed: a request with a non-empty JSON update is processed exactly once
\* and answered "ok"; a request with no JSON is answered ("No JSON received", 400)
\* and not processed; an exception while the update is built or processed gives
\* ("error", 500).
C27_WebhookResponses ==
    \A k \in 1..Len(hook_log) :
        LET r == hook_log[k]
        IN /\ (CarriesUpdate(r) /\ r.raised = "none") =>
                  r.processed = 1 /\ r.response = "ok"
           /\ (CarriesNoJson(r) /\ r.raised # "get_application") =>
                  r.processed = 0 /\ r.response = "no_json_400"
           /\ r.raised \in {"de_json", "process_update", "get_application"} =>
                  r.response = "error_500"

-----------------------------------------------------------------------------
(* Properties of log_command_usage *)

\* C28: every finished invocation called log_command exactly once, with True when
\* the handler returned and with False when it raised; the caller gets the
\* handler's result, or the handler's exception, whatever log_command did.
C28_LoggedOnce ==
    \A k \in 1..Len(wrapper_log) :
        LET w == wrapper_log[k]
        IN /\ Len(w.calls) = 1
           /\ w.calls[1] = (w.handler = "returned")
           /\ w.seen = w.handler
           /\ w.seen_value = w.value

\* both cases happened, and rows are missing because log_command failed
C28_Witness ==
    /\ \E k \in 1..Len(wrapper_log) : wrapper_log[k].handler = "returned"
    /\ \E k \in 1..Len(wrapper_log) :
          wrapper_log[k].handler = "raised" /\ wrapper_log[k].seen_value = "NetworkError"
    /\ Len(wrapper_log) = MaxInvocations
    /\ usage_rows = <<>>

-----------------------------------------------------------------------------
(* Properties of the segmentation loop *)

\* the blocks that have entry k (0-based position of filtered_entries)
BlocksOf(k) == { n \in 1..Len(Blocks) : Blocks[n].first <= k /\ k <= Blocks[n].last }

MemberCount(n) == Blocks[n].last - Blocks[n].first + 1

\* C29: the blocks are numbered 1..k in the order emitted, each a non-empty run of
\* consecutive entries that begins where the one before ended; in the reply every
\* filtered entry is in exactly one block and the member counts add up to the
\* number of filtered entries.
C29_BlocksPartition ==
    /\ \A n \in 1..Len(Blocks) :
         /\ Blocks[n].block_number = n
         /\ Blocks[n].first <= Blocks[n].last
         /\ Blocks[n].first = IF n = 1 THEN 0 ELSE Blocks[n - 1].last + 1
         /\ Blocks[n].last < NumEntries
    /\ FnrDone =>
         /\ \A k \in 0..(NumEntries - 1) : Cardinality(BlocksOf(k)) = 1
         /\ SumSeq([n \in 1..Len(Blocks) |-> MemberCount(n)]) = NumEntries

\* three entries in two blocks, the first of two members
C29_Witness ==
    /\ FnrDone
    /\ NumEntries = 3
    /\ Len(Blocks) = 2
    /\ MemberCount(1) = 2

\* C30: the loop ends for every input: each pass of the outer loop moves the
\* outer index forward, a handler that has entered the loop reaches its end, and the
\* reply has at least one block for a non-empty list and no more blocks than
\* entries.
C30_LoopTerminates ==
    /\ [][(pc = "emit" /\ pc' = "outer") => i' > i]_vars
    /\ [](pc = "done" /\ NumEntries > 0 =>
             /\ 1 <= Len(Blocks)
             /\ Len(Blocks) <= NumEntries
             /\ i = NumEntries)
    /\ (pc = "outer") ~> (pc \in Terminal)

\* the most passes: every entry a block of its own
C30_Witness ==
    /\ FnrDone
    /\ NumEntries = 3
    /\ Len(Blocks) = 3
    /\ i = 3

====
